---- MODULE Spec2Model ----
(***************************************************************************)
(* A model of the CKAN crawl-and-download pipeline of fetch_data.py and of *)
(* the transport of async_ckan.py.                                         *)
(*                                                                         *)
(* Python strings are sequences of one-character strings, so that          *)
(* str.replace, str.split, str.startswith and str.lower are computed the   *)
(* way Python computes them.  A path is the sequence of its components.    *)
(* Every coroutine is a task with a program counter; an action is what a   *)
(* task does between two suspension points (awaits) of the event loop.     *)
(***************************************************************************)
EXTENDS Naturals, Sequences, FiniteSets

(***************************************************************************)
(* Strings                                                                 *)
(***************************************************************************)

\* JSON null (Python None) and an absent key, as values no string equals.
NoneVal == <<"None">>
Missing == <<"KeyError">>

\* dict.get(key, default): the default only when the key is absent.
Get(v, default) == IF v = Missing THEN default ELSE v

\* Python truthiness of a str-or-None value.
Truthy(v) == v # NoneVal /\ v # <<>>

\* str.startswith
StartsWith(s, p) == Len(s) >= Len(p) /\ SubSeq(s, 1, Len(p)) = p

\* str.replace(old, new): every non-overlapping occurrence, left to right.
RECURSIVE Replace(_, _, _)
Replace(s, old, new) ==
    IF s = <<>> THEN <<>>
    ELSE IF StartsWith(s, old)
         THEN new \o Replace(SubSeq(s, Len(old) + 1, Len(s)), old, new)
         ELSE <<Head(s)>> \o Replace(Tail(s), old, new)

\* str.split("/")[-1]: what follows the last "/".
RECURSIVE LastSegment(_)
LastSegment(s) ==
    IF \E i \in 1..Len(s) : s[i] = "/"
    THEN LastSegment(SubSeq(s, (CHOOSE i \in 1..Len(s) : s[i] = "/") + 1, Len(s)))
    ELSE s

\* str.split("/"): the segments between the "/"s (empty ones included).
RECURSIVE SplitSlash(_)
SplitSlash(s) ==
    IF \E i \in 1..Len(s) : s[i] = "/"
    THEN LET i == CHOOSE j \in 1..Len(s) :
                      s[j] = "/" /\ \A k \in 1..(j - 1) : s[k] # "/"
         IN  <<SubSeq(s, 1, i - 1)>> \o SplitSlash(SubSeq(s, i + 1, Len(s)))
    ELSE <<s>>

UpperAlpha == <<"A", "B", "C", "D", "E", "F", "G", "H", "I", "J", "K", "L", "M",
                "N", "O", "P", "Q", "R", "S", "T", "U", "V", "W", "X", "Y", "Z">>
LowerAlpha == <<"a", "b", "c", "d", "e", "f", "g", "h", "i", "j", "k", "l", "m",
                "n", "o", "p", "q", "r", "s", "t", "u", "v", "w", "x", "y", "z">>

LowerChar(c) ==
    IF \E i \in 1..26 : UpperAlpha[i] = c
    THEN LowerAlpha[CHOOSE i \in 1..26 : UpperAlpha[i] = c]
    ELSE c

\* str.lower
Lower(s) == [i \in 1..Len(s) |-> LowerChar(s[i])]

\* str.splitlines() of a text whose only line break is "\n".
RECURSIVE Lines(_)
Lines(s) ==
    IF s = <<>> THEN <<>>
    ELSE IF \E i \in 1..Len(s) : s[i] = "\n"
    THEN LET i == CHOOSE j \in 1..Len(s) :
                      s[j] = "\n" /\ \A k \in 1..(j - 1) : s[k] # "\n"
         IN  <<SubSeq(s, 1, i - 1)>> \o Lines(SubSeq(s, i + 1, Len(s)))
    ELSE <<s>>

\* The strings of a sequence, one after the other.
RECURSIVE Concat(_)
Concat(ss) == IF ss = <<>> THEN <<>> ELSE Head(ss) \o Concat(Tail(ss))

HTTP == <<"h", "t", "t", "p", ":", "/", "/">>
HTTPS == <<"h", "t", "t", "p", "s", ":", "/", "/">>

(***************************************************************************)
(* Paths (pathlib)                                                         *)
(***************************************************************************)

\* The components pathlib keeps of a relative string: "" and "." vanish.
PathParts(s) ==
    SelectSeq(SplitSlash(s), LAMBDA c : c # <<>> /\ c # <<".">>)

\* Path.__truediv__: path / "name"
PathJoin(path, s) == path \o PathParts(s)

\* What the operating system makes of a path: ".." steps to the parent.
RECURSIVE Resolve(_)
Resolve(path) ==
    IF path = <<>> THEN <<>>
    ELSE LET init == Resolve(SubSeq(path, 1, Len(path) - 1))
             last == path[Len(path)]
         IN  IF last = <<".", ".">>
             THEN (IF init = <<>> THEN <<>> ELSE SubSeq(init, 1, Len(init) - 1))
             ELSE Append(init, last)

Parent(path) == SubSeq(path, 1, Len(path) - 1)

\* Path(__file__).parent / "dataset"
dataset_path == <<<<"d", "a", "t", "a", "s", "e", "t">>>>

METADATA_JSON == <<"m", "e", "t", "a", "d", "a", "t", "a", ".", "j", "s", "o", "n">>

(***************************************************************************)
(* The remote catalog.  It does not change during a behaviour.             *)
(***************************************************************************)

\* fetch_data.py BASE_URL, with the host name shortened to "x".
BASE_URL == HTTPS \o <<"x", "/", "a", "p", "i", "/">>

\* The authority of an URL: the third "/"-separated segment.
Host(url) == IF Len(SplitSlash(url)) >= 3 THEN SplitSlash(url)[3] ELSE <<>>

G1 == <<"g", "1">>
P1 == <<"p", "1">>
P2 == <<"p", "2">>
Q1 == <<"q", "1">>

\* The module-level list of group ids main() crawls (one is uncommented).
groups == <<G1>>

text_csv == <<"t", "e", "x", "t", "/", "c", "s", "v">>
TEXT_CSV == <<"T", "E", "X", "T", "/", "C", "S", "V">>
text_html == <<"t", "e", "x", "t", "/", "h", "t", "m", "l">>
application_json ==
    <<"a", "p", "p", "l", "i", "c", "a", "t", "i", "o", "n", "/", "j", "s", "o", "n">>

Res(url, name, mimetype) == [url |-> url, name |-> name, mimetype |-> mimetype]

\* Resource URLs and names the crawl is tried on.
UrlHttps == HTTPS \o <<"x", "/", "a", ".", "c", "s", "v">>
UrlHttp == HTTP \o <<"x", "/", "a", ".", "c", "s", "v">>
UrlNested == HTTP \o <<"x", "/", "?", "u", "=">> \o HTTP \o <<"y">>
UrlHttpsNested == HTTPS \o <<"x", "/", "?", "u", "=">> \o HTTP \o <<"y">>
UrlSlash == HTTPS \o <<"x", "/", "d", "/">>
UrlJson == HTTPS \o <<"x", "/", "b", ".", "j", "s", "o", "n">>

\* An url the remote answers with an error status every time.
UrlDead == HTTPS \o <<"x", "/", "g", "o", "n", "e">>
Dead(url) == url = UrlDead

NameNested == <<"a", "/", "b", ".", "c", "s", "v">>
NamePlain == <<"r", ".", "c", "s", "v">>
NameDotDot == <<".", ".">>

ProbeUrls == {UrlHttps, UrlHttp, UrlNested, UrlHttpsNested, UrlSlash,
              <<>>, NoneVal, Missing}
ProbeNames == {NameNested, NamePlain, NameDotDot, <<>>, NoneVal, Missing}
ProbeMimes == {text_csv, TEXT_CSV, text_html, <<>>, Missing}

GoodRes == Res(UrlJson, <<"b">>, application_json)
NullMimeRes == Res(UrlHttps, NamePlain, NoneVal)
DeadRes == Res(UrlDead, <<"d">>, text_csv)

\* The resource lists of package q1 that dump_all is tried on: single
\* resources (every url with the names that differ in effect, every name and
\* every mimetype with one url), a resource with a null mimetype beside a
\* downloadable one, and a resource with a dead url beside a live one.
ProbeLists ==
    {<<Res(u, n, text_csv)>> :
        u \in ProbeUrls, n \in {NameNested, NamePlain, NameDotDot, Missing}}
      \cup {<<Res(UrlHttps, n, m)>> : n \in ProbeNames, m \in ProbeMimes}
      \cup {<<NullMimeRes, GoodRes>>, <<GoodRes, NullMimeRes>>}
      \cup {<<DeadRes, GoodRes>>}

\* A scenario: the entry point run, the ids package_list() answers and the
\* resources of package q1.  The catalog that lists q1 twice gives it no
\* downloadable resource, so that no two downloads write one file.
Scenarios ==
    {[entry |-> "main", ids |-> <<>>, resources |-> <<>>]}
      \cup {[entry |-> "dump_all", ids |-> <<Q1>>, resources |-> rs] :
               rs \in ProbeLists}
      \cup {[entry |-> "dump_all", ids |-> <<Q1, Q1>>,
              resources |-> <<Res(UrlHttps, NamePlain, text_html)>>]}

\* The result of the remote action group_show(id=id).
group_show(id) == [name |-> <<"b", "i", "l">>, packages |-> <<P1, P2>>]

\* The result of the remote action package_list().
package_list(s) == s.ids

\* The result of the remote action package_show(id=id).
package_show(s, id) ==
    IF id = P1
    THEN [author |-> <<"m", "e", "f">>,
          resources |-> <<Res(UrlHttp, Missing, TEXT_CSV), GoodRes>>]
    ELSE IF id = P2
    THEN [author |-> Missing,
          resources |-> <<Res(UrlHttps, NamePlain, text_html)>>]
    ELSE [author |-> Missing, resources |-> s.resources]

\* The body the remote serves for an URL, as the chunks iter_any() yields.
Body(url) == <<[of |-> url, part |-> 1], [of |-> url, part |-> 2]>>

\* json.dumps(document) of the document of an id, as one chunk.
Dumps(id) == <<[of |-> id, part |-> 0]>>

(***************************************************************************)
(* Bounds and program constants                                            *)
(***************************************************************************)

\* How many times the program is run on the same output directory.
MaxRuns == 2

\* How many retry loops of a behaviour meet a failing request; the number of
\* failures within such a loop is not bounded.
MaxFaultyLoops == 1

\* The connector's limit_per_host.  main() sets 100; the model scales it
\* down so that the fan-out of the catalog above can reach it.
LimitPerHost == 2

\* max_retries of CKAN._download.
max_retries == 10

\* max_retries of AsyncRemoteCKAN._request_fn_get.
meta_max_retries == 10

(***************************************************************************)
(* State                                                                   *)
(***************************************************************************)

VARIABLES
    scn,        \* the scenario: entry point and remote catalog
    call,       \* the arguments call_action is tried on, and its outcome
    run,        \* the number of the current run of the program
    pc,         \* task -> where the coroutine stands
    tries,      \* task -> iterations of its retry loop that have failed
    gets,       \* task -> GET requests its retry loop has issued (a metadata
                \* call that returned has given both counters up)
    requested,  \* task -> it has issued a GET request in this run
    response,   \* task -> what _request_fn_get returned to its call_action
    exc,        \* task -> the exception it raised, or the last one it caught
    hit,        \* task -> its cache file existed when it checked
    dlUrl,      \* download task -> local variable url of _download
    dlDest,     \* download task -> local variable download_path of _download
    pos,        \* download task -> chunks its current attempt has received
    pkgDir,     \* package task -> local variable download_path of dump_package
    files,      \* path -> content of the regular files under the output path
    dirs,       \* the directories that exist (<<>> is the script's own)
    cache,      \* id -> document stored in <output>/.cache/<id>.json
    cacheWrites,\* id -> how many times <output>/.cache/<id>.json was written
    errorsLog,  \* the strings written to <output>/errors.log, in order
    logStart,   \* Len(errorsLog) when the current run started
    prevClean,  \* the previous run finished with no failed download or call
    faultyLoops \* the retry loops that have met a failing request so far

vars == <<scn, call, run, pc, tries, gets, requested, response, exc, hit,
          dlUrl, dlDest, pos, pkgDir,
          files, dirs, cache, cacheWrites, errorsLog, logStart, prevClean,
          faultyLoops>>

\* Tasks: main (or dump_all), one dump_group per group, one dump_package per
\* package id, one _download per resource.
Main == <<"main", 0, 0>>
GrpTask(g) == <<"grp", g, 0>>
PkgTask(p) == <<"pkg", p, 0>>
DlTask(p, k) == <<"dl", p, k>>

GrpTasks == {GrpTask(g) : g \in 1..Len(groups)}
PkgTasks == {PkgTask(p) : p \in 1..2}
DlTasks == {DlTask(p, k) : p \in 1..2, k \in 1..2}
Tasks == {Main} \cup GrpTasks \cup PkgTasks \cup DlTasks

\* The ids the package tasks of a scenario are launched with, in order.
PkgIds(s) == IF s.entry = "main" THEN group_show(G1).packages ELSE package_list(s)

\* The id a group or package task works on.
IdOf(s, t) == IF t[1] = "grp" THEN groups[t[2]] ELSE PkgIds(s)[t[2]]

\* The resource a download task was launched with.
ResOf(s, d) == package_show(s, IdOf(s, PkgTask(d[2]))).resources[d[3]]

\* The download tasks dump_package(p) can launch: one per resource.
DlOf(s, t) ==
    IF t[2] \in 1..Len(PkgIds(s))
    THEN {DlTask(t[2], k) : k \in 1..Len(package_show(s, IdOf(s, t)).resources)}
    ELSE {}

\* The tasks a task gathers.
Children(s, t) ==
    IF t = Main
    THEN (IF s.entry = "main" THEN GrpTasks
          ELSE {PkgTask(p) : p \in 1..Len(package_list(s))})
    ELSE IF t[1] = "grp" THEN {PkgTask(p) : p \in 1..Len(group_show(G1).packages)}
    ELSE IF t[1] = "pkg" THEN DlOf(s, t)
    ELSE {}

Terminal == {"done", "raised", "cancelled", "ok", "skipped", "failed", "nourl"}

\* f with x mapped to v, x added to the domain when it is not in it.
Put(f, x, v) == [y \in DOMAIN f \cup {x} |-> IF y = x THEN v ELSE f[y]]

\* The counters f with the one of x raised by one.
Count(f, x) == Put(f, x, IF x \in DOMAIN f THEN f[x] + 1 ELSE 1)

\* An existence check that never finds anything.
ExistsNever(path) == FALSE

\* Path.exists()
Exists(path) == Resolve(path) \in DOMAIN files \/ Resolve(path) \in dirs

\* Path.mkdir(parents=True, exist_ok=True)
Mkdir(ds, path) == ds \cup {SubSeq(path, 1, n) : n \in 1..Len(path)}

\* _request_fn_get has returned nothing (yet).
NoResponse == [status |-> 0, body |-> "none"]

\* The arguments CKAN makes its calls with: self._ckan.action.<name>(id=...)
\* on AsyncRemoteCKAN(BASE_URL, get_only=True, session=session).
ProgramCall ==
    [context |-> NoneVal, apikey |-> NoneVal, files |-> NoneVal,
     get_only |-> TRUE, outcome |-> "none"]

\* The state of the crawl before main() or dump_all() has taken a step.
Fresh ==
    /\ run = 1
    /\ pc = [t \in Tasks |-> IF t = Main THEN "start" ELSE "idle"]
    /\ tries = [t \in Tasks |-> 0]
    /\ gets = [t \in Tasks |-> 0]
    /\ requested = [t \in Tasks |-> FALSE]
    /\ response = [t \in Tasks |-> NoResponse]
    /\ exc = [t \in Tasks |-> "none"]
    /\ hit = [t \in Tasks |-> FALSE]
    /\ dlUrl = [d \in DlTasks |-> <<>>]
    /\ dlDest = [d \in DlTasks |-> <<>>]
    /\ pos = [d \in DlTasks |-> 0]
    /\ pkgDir = [t \in PkgTasks |-> <<>>]
    /\ files = <<>>
    /\ dirs = {<<>>}
    /\ cache = <<>>
    /\ cacheWrites = <<>>
    /\ errorsLog = <<>>
    /\ logStart = 0
    /\ prevClean = FALSE
    /\ faultyLoops = 0

Init ==
    /\ scn \in Scenarios
    /\ call = ProgramCall
    /\ Fresh

(***************************************************************************)
(* The HTTP session and its connector                                      *)
(***************************************************************************)

\* CKAN.__init__ passing no session: AsyncRemoteCKAN builds its own.
CkanSessionOwn == "own"

\* The session CKAN.__init__ hands to AsyncRemoteCKAN: the one it was given.
CkanSession == "session"

\* The session _download issues its GET on: self._session.
DownloadSession == "session"

SessionOf(t) == IF t \in DlTasks THEN DownloadSession ELSE CkanSession

\* The URL a task requests.
UrlOf(t) == IF t \in DlTasks THEN dlUrl[t] ELSE BASE_URL

\* The requests a session holds a connection for, to one host.
InFlightOn(sess, host) ==
    {t \in Tasks : /\ pc[t] \in {"inflight", "stream"}
                   /\ SessionOf(t) = sess
                   /\ Host(UrlOf(t)) = host}

\* TCPConnector(limit_per_host=...): the session main() builds grants a
\* connection to a host only below the limit; a session AsyncRemoteCKAN would
\* build for itself has no per-host limit.
CanConnect(t) ==
    \/ SessionOf(t) # "session"
    \/ Cardinality(InFlightOn(SessionOf(t), Host(UrlOf(t)))) < LimitPerHost

(***************************************************************************)
(* Resource filter and download target                                     *)
(***************************************************************************)

\* self.supported_mime_types, as CKAN.__init__ defaults it.
supported_mime_types ==
    { application_json,
      <<"a", "p", "p", "l", "i", "c", "a", "t", "i", "o", "n", "/", "x", "-",
        "j", "a", "v", "a", "s", "c", "r", "i", "p", "t">>,
      <<"t", "e", "x", "t", "/", "j", "a", "v", "a", "s", "c", "r", "i", "p", "t">>,
      <<"t", "e", "x", "t", "/", "x", "-", "j", "a", "v", "a", "s", "c", "r", "i",
        "p", "t">>,
      <<"t", "e", "x", "t", "/", "x", "-", "j", "s", "o", "n">>,
      text_csv }

\* resource.get("mimetype", "").lower() raises AttributeError on None.
MimeRaises(resource) == Get(resource.mimetype, <<>>) = NoneVal

\* The filter of dump_package's loop: the resources it makes a task for.
Selected(resource) ==
    /\ Lower(Get(resource.mimetype, <<>>)) \in supported_mime_types
    /\ Truthy(Get(resource.url, <<>>))

\* url.replace("http://", "https://") when url.startswith("http://")
NormalizeUrl(url) ==
    IF StartsWith(url, HTTP) THEN Replace(url, HTTP, HTTPS) ELSE url

\* FileName without name.replace("/", "-").
FileNameUnsanitized(resource, url) ==
    LET name == Get(resource.name, <<>>)
    IN  IF Truthy(name) THEN name ELSE LastSegment(url)

\* The file name _download gives a resource fetched from (normalized) url.
FileName(resource, url) ==
    LET name == Get(resource.name, <<>>)
    IN  Replace(IF Truthy(name) THEN name ELSE LastSegment(url), <<"/">>, <<"-">>)

\* download_path / name
DestPath(dir, resource, url) == PathJoin(dir, FileName(resource, url))

(***************************************************************************)
(* Actions                                                                 *)
(***************************************************************************)

\* The state a task has when its coroutine is created anew.
Launch(ts) == [t \in Tasks |-> IF t \in ts THEN "start" ELSE pc[t]]

\* No file system change.
SameDisk == UNCHANGED <<files, dirs, cache, cacheWrites, errorsLog>>

\* main(): CKAN.__init__ makes the directories; one dump_group per group is
\* created and gathered.
main_start ==
    /\ pc[Main] = "start"
    /\ scn.entry = "main"
    /\ dirs' = Mkdir(Mkdir(dirs, PathJoin(dataset_path, <<".", "c", "a", "c", "h", "e">>)),
                     dataset_path)
    /\ pc' = [Launch(GrpTasks) EXCEPT ![Main] = "gather"]
    /\ UNCHANGED <<scn, call, run, tries, gets, requested, response, exc, hit,
                   dlUrl, dlDest, pos, pkgDir, files, cache, cacheWrites,
                   errorsLog, logStart, prevClean, faultyLoops>>

\* dump_all() on a fresh CKAN: awaits the package_list action.
dump_all_start ==
    /\ pc[Main] = "start"
    /\ scn.entry = "dump_all"
    /\ dirs' = Mkdir(Mkdir(dirs, PathJoin(dataset_path, <<".", "c", "a", "c", "h", "e">>)),
                     dataset_path)
    /\ pc' = [pc EXCEPT ![Main] = "wait"]
    /\ UNCHANGED <<scn, call, run, tries, gets, requested, response, exc, hit,
                   dlUrl, dlDest, pos, pkgDir, files, cache, cacheWrites,
                   errorsLog, logStart, prevClean, faultyLoops>>

\* The directory dump_group downloads into: self._output_path / name.
GroupDir(group) == PathJoin(dataset_path, Get(group.name, <<>>))

\* The directory a package task is given: the group's, or the output path.
BaseDir(s) ==
    IF s.entry = "main" THEN GroupDir(group_show(G1)) ELSE dataset_path

\* The directory dump_package downloads into: download_path [/ author].
PackageDir(base, package) ==
    IF Truthy(Get(package.author, <<>>))
    THEN PathJoin(base, Get(package.author, <<>>))
    ELSE base

\* dump_group from the point it holds the group document, to its gather.
GroupLoaded(t, group) ==
    /\ dirs' = Mkdir(dirs, GroupDir(group))
    /\ pc' = [Launch({PkgTask(p) : p \in 1..Len(group.packages)})
                EXCEPT ![t] = "gather"]
    /\ UNCHANGED <<exc, dlUrl, dlDest, pos, pkgDir, files, errorsLog>>

\* dump_package from the point it holds the package document, to its gather:
\* the directory is made, then the loop over the resources either raises on
\* a null mimetype (no task it made is ever run) or ends with the tasks of
\* the selected resources handed to gather.
PackageLoaded(t, package) ==
    LET dir == PackageDir(BaseDir(scn), package)
        rs == package.resources
    IN  /\ dirs' = Mkdir(dirs, dir)
        /\ pkgDir' = [pkgDir EXCEPT ![t] = dir]
        /\ IF \E k \in 1..Len(rs) : MimeRaises(rs[k])
           THEN /\ pc' = [pc EXCEPT ![t] = "raised"]
                /\ exc' = [exc EXCEPT ![t] = "AttributeError"]
           ELSE /\ pc' = [Launch({DlTask(t[2], k) : k \in {j \in 1..Len(rs) :
                                                            Selected(rs[j])}})
                            EXCEPT ![t] = "gather"]
                /\ exc' = exc
        /\ UNCHANGED <<dlUrl, dlDest, pos, files, errorsLog>>

\* dump_group_start without the cache check: it always fetches.
dump_group_start_nocache(t) ==
    /\ t \in GrpTasks
    /\ pc[t] = "start"
    /\ pc' = [pc EXCEPT ![t] = "wait"]
    /\ UNCHANGED <<hit, exc, dlUrl, dlDest, pos, pkgDir, files, dirs, errorsLog>>
    /\ UNCHANGED <<scn, call, run, tries, gets, requested, response, cache,
                   cacheWrites, logStart, prevClean, faultyLoops>>

\* dump_group up to its first await: the cache check.
dump_group_start(t) ==
    /\ t \in GrpTasks
    /\ pc[t] = "start"
    /\ IF IdOf(scn, t) \in DOMAIN cache
       THEN /\ hit' = [hit EXCEPT ![t] = TRUE]
            /\ GroupLoaded(t, cache[IdOf(scn, t)])
       ELSE /\ pc' = [pc EXCEPT ![t] = "wait"]
            /\ UNCHANGED <<hit, exc, dlUrl, dlDest, pos, pkgDir, files, dirs,
                           errorsLog>>
    /\ UNCHANGED <<scn, call, run, tries, gets, requested, response, cache,
                   cacheWrites, logStart, prevClean, faultyLoops>>

\* dump_package_start without the cache check: it always fetches.
dump_package_start_nocache(t) ==
    /\ t \in PkgTasks
    /\ pc[t] = "start"
    /\ pc' = [pc EXCEPT ![t] = "wait"]
    /\ UNCHANGED <<hit, exc, dlUrl, dlDest, pos, pkgDir, files, dirs, errorsLog>>
    /\ UNCHANGED <<scn, call, run, tries, gets, requested, response, cache,
                   cacheWrites, logStart, prevClean, faultyLoops>>

\* dump_package_start creating the download tasks of the package before it
\* awaits package_show.
dump_package_start_eager(t) ==
    /\ t \in PkgTasks
    /\ pc[t] = "start"
    /\ IF IdOf(scn, t) \in DOMAIN cache
       THEN /\ hit' = [hit EXCEPT ![t] = TRUE]
            /\ PackageLoaded(t, cache[IdOf(scn, t)])
       ELSE /\ pc' = [Launch(DlOf(scn, t)) EXCEPT ![t] = "wait"]
            /\ UNCHANGED <<hit, exc, dlUrl, dlDest, pos, pkgDir, files, dirs,
                           errorsLog>>
    /\ UNCHANGED <<scn, call, run, tries, gets, requested, response, cache,
                   cacheWrites, logStart, prevClean, faultyLoops>>

\* dump_package up to its first await: the cache check.
dump_package_start(t) ==
    /\ t \in PkgTasks
    /\ pc[t] = "start"
    /\ IF IdOf(scn, t) \in DOMAIN cache
       THEN /\ hit' = [hit EXCEPT ![t] = TRUE]
            /\ PackageLoaded(t, cache[IdOf(scn, t)])
       ELSE /\ pc' = [pc EXCEPT ![t] = "wait"]
            /\ UNCHANGED <<hit, exc, dlUrl, dlDest, pos, pkgDir, files, dirs,
                           errorsLog>>
    /\ UNCHANGED <<scn, call, run, tries, gets, requested, response, cache,
                   cacheWrites, logStart, prevClean, faultyLoops>>

\* call_action_check without the check of files against get_only.
call_action_check_anyfiles(context, uploads, get_only) ==
    IF Truthy(context) THEN "CKANAPIError" ELSE "request"

\* call_action before prepare_action: the exception its argument checks
\* raise, or "request" when it goes on to _request_fn_get (uploads is its
\* parameter files).
call_action_check(context, uploads, get_only) ==
    IF Truthy(context) THEN "CKANAPIError"
    ELSE IF Truthy(uploads) /\ get_only THEN "CKANAPIError"
    ELSE "request"

\* What _request_fn_get returns for a 2xx response: (res.status, text).
Success == [status |-> 200, body |-> "text"]

\* What _request_fn_get returns when its loop runs out: (200, {}).
FakeSuccess == [status |-> 200, body |-> "dict"]

\* The remote fails a request of task t: allowed to the retry loops within
\* the bound.
Fault(t) ==
    /\ tries[t] > 0 \/ faultyLoops < MaxFaultyLoops
    /\ faultyLoops' = IF tries[t] = 0 THEN faultyLoops + 1 ELSE faultyLoops

\* _request_fn_get: self.session.get(...) is granted a connection.
meta_get(t) ==
    /\ t \in Tasks \ DlTasks
    /\ pc[t] = "wait"
    /\ call_action_check(call.context, call.files, call.get_only) = "request"
    /\ CanConnect(t)
    /\ pc' = [pc EXCEPT ![t] = "inflight"]
    /\ gets' = [gets EXCEPT ![t] = @ + 1]
    /\ requested' = [requested EXCEPT ![t] = TRUE]
    /\ SameDisk
    /\ UNCHANGED <<scn, call, run, tries, response, exc, hit, dlUrl, dlDest, pos,
                   pkgDir, logStart, prevClean, faultyLoops>>

\* _request_fn_get returns (status, text) of a 2xx response; call_action
\* decodes it and the caller goes on: dump_all launches its packages,
\* dump_group and dump_package write the cache file and go on.  The loop's
\* counters go with the frame that returns.
meta_ok(t) ==
    /\ t \in Tasks \ DlTasks
    /\ pc[t] = "inflight"
    /\ IF t = Main
       THEN /\ pc' = [Launch({PkgTask(p) : p \in 1..Len(package_list(scn))})
                        EXCEPT ![Main] = "gather"]
            /\ UNCHANGED <<exc, dlUrl, dlDest, pos, pkgDir, files, dirs, cache,
                           cacheWrites, errorsLog>>
       ELSE IF t \in GrpTasks
       THEN /\ cache' = Put(cache, IdOf(scn, t), group_show(IdOf(scn, t)))
            /\ cacheWrites' = Count(cacheWrites, IdOf(scn, t))
            /\ GroupLoaded(t, group_show(IdOf(scn, t)))
       ELSE /\ cache' = Put(cache, IdOf(scn, t), package_show(scn, IdOf(scn, t)))
            /\ cacheWrites' = Count(cacheWrites, IdOf(scn, t))
            /\ PackageLoaded(t, package_show(scn, IdOf(scn, t)))
    /\ response' = [response EXCEPT ![t] = Success]
    /\ tries' = [tries EXCEPT ![t] = 0]
    /\ gets' = [gets EXCEPT ![t] = 0]
    /\ UNCHANGED <<scn, call, run, requested, hit, logStart, prevClean,
                   faultyLoops>>

\* raise_for_status raises ClientResponseError (a 4xx/5xx status): the loop
\* goes on; after max_retries iterations _request_fn_get returns (200, {}),
\* which reverse_apicontroller_action hands to json.loads: that raises on a
\* dict, so call_action raises.
meta_http_error(t) ==
    /\ t \in Tasks \ DlTasks
    /\ pc[t] = "inflight"
    /\ Fault(t)
    /\ tries' = [tries EXCEPT ![t] = @ + 1]
    /\ IF tries[t] + 1 < meta_max_retries
       THEN /\ pc' = [pc EXCEPT ![t] = "wait"]
            /\ UNCHANGED <<exc, response>>
       ELSE /\ pc' = [pc EXCEPT ![t] = "raised"]
            /\ exc' = [exc EXCEPT ![t] = "exhausted"]
            /\ response' = [response EXCEPT ![t] = FakeSuccess]
    /\ SameDisk
    /\ UNCHANGED <<scn, call, run, gets, requested, hit, dlUrl, dlDest, pos,
                   pkgDir, logStart, prevClean>>

\* session.get raises an exception that is no ClientResponseError (a
\* connection fault, a timeout): nothing catches it, call_action raises.
meta_conn_fault(t) ==
    /\ t \in Tasks \ DlTasks
    /\ pc[t] = "inflight"
    /\ Fault(t)
    /\ pc' = [pc EXCEPT ![t] = "raised"]
    /\ exc' = [exc EXCEPT ![t] = "ClientConnectionError"]
    /\ SameDisk
    /\ UNCHANGED <<scn, call, run, tries, gets, requested, response, hit,
                   dlUrl, dlDest, pos, pkgDir, logStart, prevClean>>

\* _download up to its first await: url, name and destination are computed;
\* it returns at once without an url or when the destination exists.
download_start(d) ==
    /\ d \in DlTasks
    /\ pc[d] = "start"
    /\ LET resource == ResOf(scn, d)
           url == NormalizeUrl(Get(resource.url, <<>>))
           dest == DestPath(pkgDir[PkgTask(d[2])], resource, url)
       IN  IF ~Truthy(Get(resource.url, <<>>))
           THEN /\ pc' = [pc EXCEPT ![d] = "nourl"]
                /\ UNCHANGED <<dlUrl, dlDest, pos>>
           ELSE /\ dlUrl' = [dlUrl EXCEPT ![d] = url]
                /\ dlDest' = [dlDest EXCEPT ![d] = dest]
                /\ pos' = pos
                /\ pc' = [pc EXCEPT ![d] = IF Exists(dest) THEN "skipped" ELSE "wait"]
    /\ SameDisk
    /\ UNCHANGED <<scn, call, run, tries, gets, requested, response, exc, hit,
                   pkgDir, logStart, prevClean, faultyLoops>>

\* self._session.get(url) is granted a connection: the GET is sent.
download_get(d) ==
    /\ d \in DlTasks
    /\ pc[d] = "wait"
    /\ CanConnect(d)
    /\ pc' = [pc EXCEPT ![d] = "inflight"]
    /\ gets' = [gets EXCEPT ![d] = @ + 1]
    /\ requested' = [requested EXCEPT ![d] = TRUE]
    /\ SameDisk
    /\ UNCHANGED <<scn, call, run, tries, response, exc, hit, dlUrl, dlDest, pos,
                   pkgDir, logStart, prevClean, faultyLoops>>

\* f"Couldn't download {url}: {last_exc}", str(last_exc) being one token.
COULDNT == <<"C", "o", "u", "l", "d", "n", "'", "t", " ",
             "d", "o", "w", "n", "l", "o", "a", "d", " ">>
ErrorMessage(url, last_exc) == COULDNT \o url \o <<":", " ">> \o <<last_exc>>

\* AttemptFailed with the for loop's else clause run on every failed attempt.
AttemptFailedLogsEach(d, e) ==
    /\ tries' = [tries EXCEPT ![d] = @ + 1]
    /\ pc' = [pc EXCEPT ![d] = IF tries[d] + 1 < max_retries THEN "wait" ELSE "failed"]
    /\ exc' = [exc EXCEPT ![d] = e]
    /\ errorsLog' = Append(errorsLog, ErrorMessage(dlUrl[d], e))
    /\ pos' = [pos EXCEPT ![d] = 0]

\* except Exception: the attempt is over (last_exc is the exception e) and
\* its response is closed; after the last one the for loop's else clause
\* appends url and last_exc to errors.log and _download returns.
AttemptFailed(d, e) ==
    /\ tries' = [tries EXCEPT ![d] = @ + 1]
    /\ pos' = [pos EXCEPT ![d] = 0]
    /\ IF tries[d] + 1 < max_retries
       THEN /\ pc' = [pc EXCEPT ![d] = "wait"]
            /\ UNCHANGED <<exc, errorsLog>>
       ELSE /\ pc' = [pc EXCEPT ![d] = "failed"]
            /\ exc' = [exc EXCEPT ![d] = e]
            /\ errorsLog' = Append(errorsLog, ErrorMessage(dlUrl[d], e))

\* The GET fails before any byte is written: a connection fault, or
\* raise_for_status on a 4xx/5xx status (always, for a dead url).
download_http_error(d) ==
    /\ d \in DlTasks
    /\ pc[d] = "inflight"
    /\ IF Dead(dlUrl[d]) THEN faultyLoops' = faultyLoops ELSE Fault(d)
    /\ AttemptFailed(d, "ClientError")
    /\ UNCHANGED <<scn, call, run, gets, requested, response, hit, dlUrl,
                   dlDest, pkgDir, files, dirs, cache, cacheWrites, logStart,
                   prevClean>>

\* download_open with the file opened in mode "ab": what an earlier attempt
\* wrote is kept.
download_open_append(d) ==
    /\ d \in DlTasks
    /\ pc[d] = "inflight"
    /\ ~Dead(dlUrl[d])
    /\ IF Resolve(Parent(dlDest[d])) \in dirs /\ Resolve(dlDest[d]) \notin dirs
       THEN /\ files' = IF Resolve(dlDest[d]) \in DOMAIN files
                        THEN files
                        ELSE Put(files, Resolve(dlDest[d]), <<>>)
            /\ pc' = [pc EXCEPT ![d] = "stream"]
            /\ pos' = [pos EXCEPT ![d] = 0]
            /\ UNCHANGED <<tries, exc, errorsLog>>
       ELSE /\ AttemptFailed(d, "OSError")
            /\ files' = files
    /\ UNCHANGED <<scn, call, run, gets, requested, response, hit, dlUrl,
                   dlDest, pkgDir, dirs, cache, cacheWrites, logStart,
                   prevClean, faultyLoops>>

\* The status is 2xx: download_path.open("wb") creates or truncates the
\* file, and the body is read from its start; open raises when the parent is
\* no directory.
download_open(d) ==
    /\ d \in DlTasks
    /\ pc[d] = "inflight"
    /\ ~Dead(dlUrl[d])
    /\ IF Resolve(Parent(dlDest[d])) \in dirs /\ Resolve(dlDest[d]) \notin dirs
       THEN /\ files' = Put(files, Resolve(dlDest[d]), <<>>)
            /\ pc' = [pc EXCEPT ![d] = "stream"]
            /\ pos' = [pos EXCEPT ![d] = 0]
            /\ UNCHANGED <<tries, exc, errorsLog>>
       ELSE /\ AttemptFailed(d, "OSError")
            /\ files' = files
    /\ UNCHANGED <<scn, call, run, gets, requested, response, hit, dlUrl,
                   dlDest, pkgDir, dirs, cache, cacheWrites, logStart,
                   prevClean, faultyLoops>>

\* fd.write(chunk) of the next chunk iter_any() yields; after the last one
\* the attempt has succeeded and the loop breaks.
download_chunk(d) ==
    /\ d \in DlTasks
    /\ pc[d] = "stream"
    /\ LET path == Resolve(dlDest[d])
           body == Body(dlUrl[d])
           n == pos[d] + 1
       IN  /\ n <= Len(body)
           /\ files' = [files EXCEPT ![path] = Append(@, body[n])]
           /\ pos' = [pos EXCEPT ![d] = n]
           /\ pc' = [pc EXCEPT ![d] = IF n = Len(body) THEN "ok" ELSE "stream"]
    /\ UNCHANGED <<scn, call, run, tries, gets, requested, response, exc, hit,
                   dlUrl, dlDest, pkgDir, dirs, cache, cacheWrites, errorsLog,
                   logStart, prevClean, faultyLoops>>

\* The stream breaks while the body is read: what was written stays.
download_stream_error(d) ==
    /\ d \in DlTasks
    /\ pc[d] = "stream"
    /\ Fault(d)
    /\ AttemptFailed(d, "ClientPayloadError")
    /\ UNCHANGED <<scn, call, run, gets, requested, response, hit, dlUrl,
                   dlDest, pkgDir, files, dirs, cache, cacheWrites, logStart,
                   prevClean>>

\* The tasks a gather waits for: the children that were launched.
Launched(t) == {c \in Children(scn, t) : pc[c] # "idle"}

\* dump_package_gather writing metadata.json only when no download failed.
dump_package_gather_strict(t) ==
    /\ t \in PkgTasks
    /\ pc[t] = "gather"
    /\ \A d \in Launched(t) : pc[d] \in Terminal \ {"failed"}
    /\ files' = Put(files, Resolve(PathJoin(pkgDir[t], METADATA_JSON)),
                    Dumps(IdOf(scn, t)))
    /\ pc' = [pc EXCEPT ![t] = "done"]
    /\ UNCHANGED <<scn, call, run, tries, gets, requested, response, exc, hit,
                   dlUrl, dlDest, pos, pkgDir, dirs, cache, cacheWrites, errorsLog,
                   logStart, prevClean, faultyLoops>>

\* dump_package_gather not awaiting the gather: metadata.json is written
\* while download tasks are still running.
dump_package_gather_early(t) ==
    /\ t \in PkgTasks
    /\ pc[t] = "gather"
    /\ files' = Put(files, Resolve(PathJoin(pkgDir[t], METADATA_JSON)),
                    Dumps(IdOf(scn, t)))
    /\ pc' = [pc EXCEPT ![t] = "done"]
    /\ UNCHANGED <<scn, call, run, tries, gets, requested, response, exc, hit,
                   dlUrl, dlDest, pos, pkgDir, dirs, cache, cacheWrites, errorsLog,
                   logStart, prevClean, faultyLoops>>

\* dump_package after its gather: every download task has returned; the
\* package document is written to metadata.json.
dump_package_gather(t) ==
    /\ t \in PkgTasks
    /\ pc[t] = "gather"
    /\ \A d \in Launched(t) : pc[d] \in Terminal
    /\ files' = Put(files, Resolve(PathJoin(pkgDir[t], METADATA_JSON)),
                    Dumps(IdOf(scn, t)))
    /\ pc' = [pc EXCEPT ![t] = "done"]
    /\ UNCHANGED <<scn, call, run, tries, gets, requested, response, exc, hit,
                   dlUrl, dlDest, pos, pkgDir, dirs, cache, cacheWrites, errorsLog,
                   logStart, prevClean, faultyLoops>>

\* dump_group after its gather: every dump_package has returned; the group
\* document is written to metadata.json.
dump_group_gather(t) ==
    /\ t \in GrpTasks
    /\ pc[t] = "gather"
    /\ \A c \in Launched(t) : pc[c] = "done"
    /\ files' = Put(files, Resolve(PathJoin(GroupDir(group_show(IdOf(scn, t))),
                                            METADATA_JSON)),
                    Dumps(IdOf(scn, t)))
    /\ pc' = [pc EXCEPT ![t] = "done"]
    /\ UNCHANGED <<scn, call, run, tries, gets, requested, response, exc, hit,
                   dlUrl, dlDest, pos, pkgDir, dirs, cache, cacheWrites, errorsLog,
                   logStart, prevClean, faultyLoops>>

\* asyncio.gather without return_exceptions: the first exception of a child
\* is raised in the task that awaits the gather; the other children go on.
dump_group_raise(t) ==
    /\ t \in GrpTasks
    /\ pc[t] = "gather"
    /\ \E c \in Launched(t) : pc[c] = "raised"
    /\ pc' = [pc EXCEPT ![t] = "raised"]
    /\ exc' = [exc EXCEPT ![t] =
                 exc[CHOOSE c \in Launched(t) : pc[c] = "raised"]]
    /\ SameDisk
    /\ UNCHANGED <<scn, call, run, tries, gets, requested, response, hit,
                   dlUrl, dlDest, pos, pkgDir, logStart, prevClean, faultyLoops>>

\* main (or dump_all) after its gather: every child has returned.
main_gather ==
    /\ pc[Main] = "gather"
    /\ \A c \in Launched(Main) : pc[c] = "done"
    /\ pc' = [pc EXCEPT ![Main] = "done"]
    /\ SameDisk
    /\ UNCHANGED <<scn, call, run, tries, gets, requested, response, exc, hit,
                   dlUrl, dlDest, pos, pkgDir, logStart, prevClean, faultyLoops>>

\* The exception of a child leaves main (or dump_all): the session is closed
\* and asyncio.run cancels every task still pending.
main_raise ==
    /\ pc[Main] = "gather"
    /\ \E c \in Launched(Main) : pc[c] = "raised"
    /\ pc' = [t \in Tasks |->
                IF t = Main THEN "raised"
                ELSE IF pc[t] \in Terminal \cup {"idle"} THEN pc[t]
                ELSE "cancelled"]
    /\ SameDisk
    /\ UNCHANGED <<scn, call, run, tries, gets, requested, response, exc, hit,
                   dlUrl, dlDest, pos, pkgDir, logStart, prevClean, faultyLoops>>

\* The run is over without a failed download and without an exception.
RunClean == pc[Main] = "done" /\ \A d \in DlTasks : pc[d] # "failed"

\* The program is run again on the output directory the last run left.
new_run ==
    /\ pc[Main] \in {"done", "raised"}
    /\ run < MaxRuns
    /\ run' = run + 1
    /\ pc' = [t \in Tasks |-> IF t = Main THEN "start" ELSE "idle"]
    /\ tries' = [t \in Tasks |-> 0]
    /\ gets' = [t \in Tasks |-> 0]
    /\ requested' = [t \in Tasks |-> FALSE]
    /\ response' = [t \in Tasks |-> NoResponse]
    /\ exc' = [t \in Tasks |-> "none"]
    /\ hit' = [t \in Tasks |-> FALSE]
    /\ dlUrl' = [d \in DlTasks |-> <<>>]
    /\ dlDest' = [d \in DlTasks |-> <<>>]
    /\ pos' = [d \in DlTasks |-> 0]
    /\ pkgDir' = [t \in PkgTasks |-> <<>>]
    /\ logStart' = Len(errorsLog)
    /\ prevClean' = RunClean
    /\ SameDisk
    /\ UNCHANGED <<scn, call, faultyLoops>>

Next ==
    \/ main_start
    \/ dump_all_start
    \/ \E t \in Tasks : dump_group_start(t)
    \/ \E t \in Tasks : dump_package_start(t)
    \/ \E t \in Tasks : meta_get(t)
    \/ \E t \in Tasks : meta_ok(t)
    \/ \E t \in Tasks : meta_http_error(t)
    \/ \E t \in Tasks : meta_conn_fault(t)
    \/ \E d \in Tasks : download_start(d)
    \/ \E d \in Tasks : download_get(d)
    \/ \E d \in Tasks : download_http_error(d)
    \/ \E d \in Tasks : download_open(d)
    \/ \E d \in Tasks : download_chunk(d)
    \/ \E d \in Tasks : download_stream_error(d)
    \/ \E t \in Tasks : dump_package_gather(t)
    \/ \E t \in Tasks : dump_group_gather(t)
    \/ \E t \in Tasks : dump_group_raise(t)
    \/ main_gather
    \/ main_raise
    \/ new_run

Spec == Init /\ [][Next]_vars

(***************************************************************************)
(* call_action on arbitrary arguments                                      *)
(***************************************************************************)

\* The values call_action is tried on: None, an empty and a non-empty dict
\* for context and files, None, "" and a key for apikey.
Contexts == {NoneVal, <<>>, <<"user">>, <<"user", "ignore_auth">>}
ApiKeys == {NoneVal, <<>>, <<"k">>}
Uploads == {NoneVal, <<>>, <<"upload">>}

Calls ==
    [context : Contexts, apikey : ApiKeys, files : Uploads,
     get_only : BOOLEAN, outcome : {"none"}]

\* dump_all() on a client that makes its call with arguments of Calls.
InitCall ==
    /\ scn = [entry |-> "dump_all", ids |-> <<Q1>>, resources |-> <<GoodRes>>]
    /\ call \in Calls
    /\ Fresh

\* call_action raises on its arguments, before prepare_action and before
\* _request_fn_get.
call_action_raise(t) ==
    /\ t \in Tasks \ DlTasks
    /\ pc[t] = "wait"
    /\ call_action_check(call.context, call.files, call.get_only) # "request"
    /\ pc' = [pc EXCEPT ![t] = "raised"]
    /\ exc' = [exc EXCEPT ![t] =
                 call_action_check(call.context, call.files, call.get_only)]
    /\ call' = [call EXCEPT !.outcome = "raised"]
    /\ SameDisk
    /\ UNCHANGED <<scn, run, tries, gets, requested, response, hit, dlUrl,
                   dlDest, pos, pkgDir, logStart, prevClean, faultyLoops>>

NextCall ==
    \/ dump_all_start
    \/ call_action_raise(Main)
    \/ meta_get(Main)

SpecCall == InitCall /\ [][NextCall]_vars

(***************************************************************************)
(* Claims                                                                  *)
(***************************************************************************)

\* The entries this run has appended to errors.log for an url.
LoggedFor(url) ==
    {i \in (logStart + 1)..Len(errorsLog) :
        StartsWith(errorsLog[i], COULDNT \o url \o <<":", " ">>)}

\* C1: a download whose every attempt fails issues exactly max_retries (10)
\* GETs, no download ever issues more, exactly one entry for its url is then
\* appended to errors.log (and none before), and _download returns: no
\* exception reaches dump_package.
C1_RetryBound ==
    \A d \in DlTasks :
        /\ gets[d] <= max_retries
        /\ pc[d] # "raised"
        /\ pc[d] = "failed" =>
              /\ gets[d] = max_retries
              /\ max_retries = 10
              /\ Cardinality(LoggedFor(dlUrl[d])) = 1
              /\ pc[PkgTask(d[2])] # "raised"
        /\ pc[d] \in {"wait", "inflight", "stream"} =>
              Cardinality(LoggedFor(dlUrl[d])) = 0

\* C1 happens: a download has failed for good and its dump_package went on.
C1_Witness ==
    \E d \in DlTasks : pc[d] = "failed" /\ pc[PkgTask(d[2])] = "done"

\* C2: a download that fails for good raises nothing into its package and
\* cancels no sibling: once every download task of the package has returned,
\* dump_package can write metadata.json, and when it is done every sibling
\* has returned and metadata.json holds the package document.
C2_FailureIsolation ==
    \A t \in PkgTasks :
        (\E d \in DlOf(scn, t) : pc[d] = "failed") =>
            /\ pc[t] # "raised"
            /\ \A d \in DlOf(scn, t) :
                  pc[d] = "cancelled" => pc[Main] = "raised"
            /\ (pc[t] = "gather" /\ \A d \in DlOf(scn, t) :
                                       pc[d] \in {"idle", "ok", "skipped", "failed"})
                  => ENABLED dump_package_gather(t)
            /\ pc[t] = "done" =>
                  /\ \A d \in DlOf(scn, t) :
                        pc[d] \in {"idle", "ok", "skipped", "failed"}
                  /\ Resolve(PathJoin(pkgDir[t], METADATA_JSON)) \in DOMAIN files
                  /\ files[Resolve(PathJoin(pkgDir[t], METADATA_JSON))]
                        = Dumps(IdOf(scn, t))

\* C2 happens: of two downloads of a package one failed for good, the other
\* succeeded, and the package wrote its metadata.json.
C2_Witness ==
    \E t \in PkgTasks :
        /\ pc[t] = "done"
        /\ \E d1, d2 \in DlOf(scn, t) : pc[d1] = "failed" /\ pc[d2] = "ok"
        /\ Resolve(PathJoin(pkgDir[t], METADATA_JSON)) \in DOMAIN files

\* C3: a dump_group or dump_package that finds its cache file when it checks
\* issues no request for that id and leaves the cache as it is: it goes on
\* to its gather (or raises on the cached document) in that same step.
C3_CacheHit ==
    [][\A t \in GrpTasks \cup PkgTasks :
          (/\ pc[t] = "start"
           /\ IdOf(scn, t) \in DOMAIN cache
           /\ pc'[t] \notin {"start", "cancelled"})
             => /\ pc'[t] \in {"gather", "raised"}
                /\ ~requested'[t]
                /\ cache' = cache]_vars

\* C3 happens: in a later run a package task was served from its cache file.
C3_Witness ==
    \E t \in PkgTasks :
        run > 1 /\ hit[t] /\ pc[t] = "done" /\ ~requested[t]

\* C4 as claimed: a second run issues no request at all, neither for a
\* resource nor for metadata.
C4_SecondRunNoRequest ==
    run > 1 => \A t \in Tasks : ~requested[t]

\* C4 amended: after a run that finished with no failed download and no
\* exception, the next run issues no download request and no group_show or
\* package_show request (dump_all still issues its package_list request).
C4_SecondRunAfterClean ==
    (run > 1 /\ prevClean) => \A t \in Tasks \ {Main} : ~requested[t]

\* C4 happens: the second run of main() after a clean first run is over and
\* has skipped a download whose file the first run left.
C4_Witness ==
    /\ run > 1
    /\ prevClean
    /\ scn.entry = "main"
    /\ pc[Main] = "done"
    /\ \E d \in DlTasks : pc[d] = "skipped"

\* The tasks that hold a connection.
Connected == {t \in Tasks : pc[t] \in {"inflight", "stream"}}

\* The requests in flight to a host, over all sessions.
InFlightTo(host) == {t \in Connected : Host(UrlOf(t)) = host}

\* C5: the requests in flight to one host, metadata calls and downloads
\* together, never number more than the connector's limit_per_host.
C5_ConcurrencyCap ==
    \A t \in Connected : Cardinality(InFlightTo(Host(UrlOf(t)))) <= LimitPerHost

\* C5 happens: a host has limit_per_host requests in flight and a further
\* task waits for a connection to it.
C5_Witness ==
    \E t \in Tasks :
        /\ pc[t] = "wait"
        /\ Cardinality(InFlightTo(Host(UrlOf(t)))) = LimitPerHost

\* C6: when _download finds its destination on disk it returns in that
\* step: no GET is issued, no file changes, nothing goes to errors.log.
C6_SkipExisting ==
    [][\A d \in DlTasks :
          (/\ pc[d] = "start"
           /\ pc'[d] \notin {"start", "cancelled", "idle", "nourl"}
           /\ \/ Resolve(dlDest'[d]) \in DOMAIN files
              \/ Resolve(dlDest'[d]) \in dirs)
             => /\ pc'[d] = "skipped"
                /\ ~requested'[d]
                /\ files' = files
                /\ errorsLog' = errorsLog]_vars

\* C6 happens: a later run has skipped a download whose file is on disk.
C6_Witness ==
    \E d \in DlTasks :
        /\ run > 1
        /\ pc[d] = "skipped"
        /\ ~requested[d]
        /\ Resolve(dlDest[d]) \in DOMAIN files

\* The filter as C7 states it: the MIME type, case-folded, is in the
\* allow-set and the url is not empty.
ClaimSelected(resource) ==
    /\ Get(resource.mimetype, <<>>) # NoneVal
    /\ Lower(Get(resource.mimetype, <<>>)) \in supported_mime_types
    /\ Get(resource.url, <<>>) \notin {<<>>, NoneVal}

\* C7 as claimed: once dump_package has gone through the resources of its
\* document, a download task has been launched for a resource if and only if
\* its MIME type, case-folded, is in the allow-set and its url is not empty.
C7_FilterIff ==
    \A t \in PkgTasks :
        (pc[t] \in {"gather", "done"} \/ (pc[t] = "raised" /\ exc[t] = "AttributeError"))
          => \A d \in DlOf(scn, t) :
                (pc[d] # "idle") <=> ClaimSelected(ResOf(scn, d))

\* C8 as claimed: an url starting with http:// is requested with that prefix
\* rewritten to https:// and the rest unchanged, no GET goes to an http://
\* url, and an https:// url is requested as it is.
C8_UrlNormalization ==
    \A d \in DlTasks :
        requested[d] =>
            LET raw == ResOf(scn, d).url
            IN  /\ ~StartsWith(dlUrl[d], HTTP)
                /\ StartsWith(raw, HTTP) =>
                      dlUrl[d] = HTTPS \o SubSeq(raw, Len(HTTP) + 1, Len(raw))
                /\ StartsWith(raw, HTTPS) =>
                      dlUrl[d] = raw /\ NormalizeUrl(dlUrl[d]) = dlUrl[d]

\* The file name as C9 states it: the name, or without one the last segment
\* of the resource's url, with every "/" replaced by "-".
ClaimName(resource) ==
    LET segs == SplitSlash(resource.url)
        n == IF resource.name \in {Missing, NoneVal, <<>>}
             THEN segs[Len(segs)]
             ELSE resource.name
    IN  [i \in 1..Len(n) |-> IF n[i] = "/" THEN "-" ELSE n[i]]

\* A name that names no file of its own: the empty name, "." and "..".
Degenerate(n) == n \in {<<>>, <<".">>, <<".", ".">>}

\* C9: the destination of a download is the package directory followed by
\* the one component ClaimName; a download that requests or writes has such
\* a destination, with no "/" in the name; and every file on disk other than
\* a metadata.json is such a direct child of a package directory.
C9_NameSanitization ==
    /\ \A d \in DlTasks :
          pc[d] \in {"wait", "inflight", "stream", "ok", "failed", "skipped"} =>
              LET n == ClaimName(ResOf(scn, d))
                  dir == pkgDir[PkgTask(d[2])]
              IN  /\ ~Degenerate(n) => dlDest[d] = Append(dir, n)
                  /\ pc[d] # "skipped" =>
                        ~Degenerate(n) /\ \A i \in 1..Len(n) : n[i] # "/"
                  /\ pc[d] \in {"stream", "ok"} => Append(dir, n) \in DOMAIN files
    /\ \A path \in DOMAIN files :
          \/ path[Len(path)] = METADATA_JSON
          \/ \E p \in 1..Len(PkgIds(scn)) :
                LET package == package_show(scn, PkgIds(scn)[p])
                IN  \E k \in 1..Len(package.resources) :
                       /\ ~Degenerate(ClaimName(package.resources[k]))
                       /\ path = Append(PackageDir(BaseDir(scn), package),
                                        ClaimName(package.resources[k]))

\* C9 happens: a resource named "a/b.csv" has been downloaded to the file
\* a-b.csv of the package directory.
C9_Witness ==
    \E d \in DlTasks :
        /\ pc[d] = "ok"
        /\ ResOf(scn, d).name = NameNested
        /\ dlDest[d] = Append(pkgDir[PkgTask(d[2])], <<"a", "-", "b", ".", "c", "s", "v">>)
        /\ dlDest[d] \in DOMAIN files

\* The metadata call of task t itself has raised (no child of t was ever
\* launched, so the exception is not one handed up by a gather).
OwnCallRaised(t) ==
    /\ pc[t] = "raised"
    /\ exc[t] \in {"exhausted", "ClientConnectionError"}
    /\ \A c \in Children(scn, t) : pc[c] = "idle"

\* C10 as claimed: a metadata request is retried on every error, a status
\* error and a connection fault alike, so a call gives up only after 10
\* attempts; and every attempt issues one GET.
C10_RetryAnyError ==
    \A t \in Tasks \ DlTasks :
        /\ gets[t] <= meta_max_retries
        /\ OwnCallRaised(t) => gets[t] = meta_max_retries
        /\ pc[t] = "inflight" => gets[t] = tries[t] + 1

\* Every attempt of the metadata call of task t has failed.
Exhausted(t) == t \in Tasks \ DlTasks /\ tries[t] = meta_max_retries

\* The call of task t has raised and nothing of t went on after it.
Propagated(t) ==
    /\ pc[t] = "raised"
    /\ \A c \in Children(scn, t) : pc[c] = "idle"

\* The cache file of the id of t holds nothing written by t: it is absent,
\* or another task of the same id has fetched the document.
NotCachedBy(t) ==
    \/ t = Main
    \/ IdOf(scn, t) \notin DOMAIN cache
    \/ \E u \in (GrpTasks \cup PkgTasks) \ {t} :
          /\ u[1] = t[1]
          /\ u[2] \in 1..Len(PkgIds(scn))
          /\ IdOf(scn, u) = IdOf(scn, t)
          /\ response[u] = Success

\* C11 as claimed: when all 10 attempts of a metadata call have failed, the
\* call raises into the branch that issued it, no successful response has
\* been produced for it, and nothing is written to the cache file of its id.
C11_ExhaustionPropagates ==
    \A t \in Tasks \ DlTasks :
        Exhausted(t) =>
            /\ Propagated(t)
            /\ response[t].status # 200
            /\ NotCachedBy(t)

\* The tasks that await a gather of branches: main (or dump_all) and the
\* dump_group tasks.
FanOuts == {Main} \cup GrpTasks

\* C12 as claimed: when a branch of a fan-out has failed, the task that
\* awaits the fan-out raises only once every branch it launched is over, and
\* no branch is ever cancelled.
C12_FailSoft ==
    /\ \A t \in FanOuts :
          (pc[t] = "raised" /\ \E c \in Launched(t) : pc[c] = "raised")
             => \A c \in Launched(t) : pc[c] \in {"done", "raised"}
    /\ \A t \in Tasks : pc[t] # "cancelled"

\* C13 as claimed: whatever the remote fails, no task is left unfinished
\* (none is cancelled), main (or dump_all) never ends with an exception, and
\* once it is over every task it led to has returned.
C13_RunCompletes ==
    /\ pc[Main] # "raised"
    /\ \A t \in Tasks : pc[t] # "cancelled"
    /\ pc[Main] = "done" =>
          \A t \in Tasks \ {Main} :
              pc[t] \in {"idle", "done", "ok", "skipped", "failed", "nourl"}

\* The download tasks that have computed their destination.
Targeted == {d \in DlTasks : pc[d] \in {"wait", "inflight", "stream", "ok",
                                         "failed", "skipped"}}

\* C14 as claimed: a file at the destination of a download holds the
\* complete body of its url, and a download whose attempts have all failed
\* leaves no file at its destination.
C14_NoPartialFile ==
    \A d \in Targeted :
        /\ Resolve(dlDest[d]) \in DOMAIN files =>
              files[Resolve(dlDest[d])] = Body(dlUrl[d])
        /\ pc[d] = "failed" => Resolve(dlDest[d]) \notin DOMAIN files

\* The content of errors.log: what was written to it, in order.
LogText == Concat(errorsLog)

\* What str(last_exc) can be in an entry.
Causes == {"ClientError", "OSError", "ClientPayloadError"}

\* A line of the form "Couldn't download <url>: <cause>", and only that.
IsErrorLine(line) ==
    /\ Len(line) > Len(COULDNT) + 3
    /\ StartsWith(line, COULDNT)
    /\ SubSeq(line, Len(line) - 2, Len(line) - 1) = <<":", " ">>
    /\ line[Len(line)] \in Causes
    /\ \A i \in 1..(Len(line) - 1) : line[i] \notin Causes

\* C15 as claimed: errors.log keeps what earlier runs wrote and holds exactly
\* one line "Couldn't download <url>: <cause>" per entry written, which in
\* the first run is one per download that has failed for good; the entries
\* of different download tasks are never merged into one line.
C15_ErrorLogLines ==
    LET ls == Lines(LogText)
    IN  /\ Len(errorsLog) >= logStart
        /\ Len(ls) = Len(errorsLog)
        /\ \A i \in 1..Len(ls) : IsErrorLine(ls[i])
        /\ run = 1 => Len(ls) = Cardinality({d \in DlTasks : pc[d] = "failed"})

\* C16 as claimed: the cache file of an id is written at most once, however
\* the tasks interleave and however many tasks work on the id.
C16_CacheWriteOnce ==
    \A id \in DOMAIN cacheWrites : cacheWrites[id] <= 1

\* The metadata.json a task writes: dump_package in its download directory,
\* dump_group in the group directory.
SnapshotPath(t) ==
    IF t \in PkgTasks
    THEN Resolve(PathJoin(pkgDir[t], METADATA_JSON))
    ELSE Resolve(PathJoin(GroupDir(group_show(IdOf(scn, t))), METADATA_JSON))

\* The tasks of this run that have got as far as their gather.
Snapshotting ==
    {t \in GrpTasks \cup PkgTasks : pc[t] \in {"gather", "done"}}

\* C17 as claimed: no two tasks of a run write the same metadata.json, and
\* once dump_group is done the metadata.json of each of its packages holds
\* that package's document and the group's holds the group document.
C17_SnapshotsDistinct ==
    /\ \A a, b \in Snapshotting : a # b => SnapshotPath(a) # SnapshotPath(b)
    /\ \A g \in GrpTasks :
          pc[g] = "done" =>
              \A t \in {g} \cup Launched(g) :
                  /\ SnapshotPath(t) \in DOMAIN files
                  /\ files[SnapshotPath(t)] = Dumps(IdOf(scn, t))

\* Task t holds the document of its id: read from the cache file, or
\* fetched (for dump_all: the id list).
Loaded(t) == hit[t] \/ response[t] = Success

\* The task whose document names task t: the package of a download, the
\* group (or dump_all) of a package.
ParentOf(t) ==
    IF t \in DlTasks THEN PkgTask(t[2])
    ELSE IF scn.entry = "main" THEN GrpTask(1)
    ELSE Main

\* C18: a download is not requested before its package's document has been
\* fetched or read from the cache, and a package_show is not requested before
\* the group's document (for dump_all: the id list) has been; a sibling is
\* not held back otherwise: a package task that has been created can take
\* its first step whatever the other branches have or have not done.
C18_CausalOrdering ==
    /\ \A t \in PkgTasks \cup DlTasks :
          (requested[t] \/ pc[t] # "idle") =>
              /\ Loaded(ParentOf(t))
              /\ ParentOf(t) \in PkgTasks => IdOf(scn, ParentOf(t)) \in DOMAIN cache
    /\ \A t \in PkgTasks : pc[t] = "start" => ENABLED dump_package_start(t)

\* C18 happens: a download of the first package is in flight, after that
\* package's document was fetched, while its sibling package has not yet
\* taken a step.
C18_Witness ==
    \E d \in DlTasks :
        /\ d[2] = 1
        /\ pc[d] = "inflight"
        /\ response[PkgTask(1)] = Success
        /\ pc[PkgTask(2)] = "start"

\* How a download task ends: with the file, without one to fetch, or with
\* its failure logged.
Returned == {"ok", "skipped", "nourl", "failed"}

\* C19: dump_package has written its metadata.json only when every download
\* task it launched has returned, and it can write it as soon as they have,
\* whether they succeeded, skipped or failed; dump_group has written its
\* metadata.json only when every dump_package it launched is done.
C19_SnapshotOrdering ==
    /\ \A t \in PkgTasks :
          /\ pc[t] = "done" =>
                /\ \A d \in Launched(t) : pc[d] \in Returned
                /\ SnapshotPath(t) \in DOMAIN files
          /\ (pc[t] = "gather" /\ \A d \in Launched(t) : pc[d] \in Returned)
                => ENABLED dump_package_gather(t)
    /\ \A g \in GrpTasks :
          pc[g] = "done" =>
              /\ \A t \in Launched(g) : pc[t] = "done"
              /\ SnapshotPath(g) \in DOMAIN files
              /\ files[SnapshotPath(g)] = Dumps(IdOf(scn, g))

\* C19 happens: dump_group is done, and so is its first package, one of
\* whose downloads succeeded while the other failed for good.
C19_Witness ==
    /\ pc[GrpTask(1)] = "done"
    /\ pc[PkgTask(1)] = "done"
    /\ \E d1, d2 \in Launched(PkgTask(1)) : pc[d1] = "ok" /\ pc[d2] = "failed"
    /\ SnapshotPath(PkgTask(1)) \in DOMAIN files

C21_SuccessAtAttemptK ==
    \A d \in DlTasks :
        /\ pc[d] \in {"stream", "ok"} =>
              /\ gets[d] = tries[d] + 1
              /\ gets[d] \in 1..max_retries
              /\ LoggedFor(dlUrl[d]) = {}
              /\ Resolve(dlDest[d]) \in DOMAIN files
              /\ files[Resolve(dlDest[d])] = SubSeq(Body(dlUrl[d]), 1, pos[d])
        /\ pc[d] = "ok" =>
              /\ pos[d] = Len(Body(dlUrl[d]))
              /\ ~ENABLED download_chunk(d)
              /\ ~ENABLED download_open(d)

\* C21 happens: a download has succeeded on a later attempt than its first,
\* after failed attempts, and its file holds the whole body once.
C21_Witness ==
    \E d \in DlTasks :
        /\ pc[d] = "ok"
        /\ tries[d] >= 1
        /\ gets[d] = tries[d] + 1
        /\ files[Resolve(dlDest[d])] = Body(dlUrl[d])

====
